---- MODULE Spec2Model ----
(***************************************************************************)
(* Two-phase bus driver scheduling (Crew_Scheduling.py).                   *)
(*                                                                         *)
(* bus_driver_scheduling builds a CP-SAT model and hands it to the solver. *)
(* The model is kept here as what it is: a set of variables with domains   *)
(* and a conjunction of constraints, one operator per group of model.Add   *)
(* calls.  The solver is the external collaborator: it answers with a      *)
(* status and, on OPTIMAL or FEASIBLE, with one assignment that satisfies  *)
(* every constraint.  main sequences the two calls.                        *)
(***************************************************************************)
EXTENDS Integers, Sequences, FiniteSets, TLC

VARIABLES
  shifts,            \* the shift catalog (line 52-58), never mutated
  pc,                \* where the program is
  minimize_drivers,  \* argument of the running call
  max_num_drivers,   \* argument of the running call
  num_drivers,       \* number of driver slots of the running call (line 76)
  status,            \* what solver.Solve returned (line 309)
  solution,          \* the solver's assignment, when it has one
  result,            \* what the last call returned
  main_num_drivers,  \* main's num_drivers (line 347)
  calls,             \* the calls main has made, in order
  report             \* the per-driver lines printed so far (lines 320-338)

vars == <<shifts, pc, minimize_drivers, max_num_drivers, num_drivers, status,
          solution, result, main_num_drivers, calls, report>>

(***************************************************************************)
(* Regulation constants, all in minutes.                                   *)
(***************************************************************************)
max_driving_time == 540
max_driving_time_without_pauses == 240
min_pause_after_4h == 30
min_delay_between_shifts == 2
max_working_time == 720
min_working_time == 390
setup_time == 10
cleanup_time == 15

(***************************************************************************)
(* Bound of the model: the catalogs explored are those of CatalogList      *)
(* with at most MaxShifts shifts.                                          *)
(***************************************************************************)
MaxShifts == 7

Shift(a, b, c) == [start |-> a, end |-> b, duration |-> c]

(***************************************************************************)
(* Shift catalogs.  Every shift has duration <= end - start.               *)
(***************************************************************************)
CatalogList ==
  << \* one shift of 60 minutes
     << Shift(0, 60, 60) >>,
     \* two shifts
     << Shift(0, 200, 200), Shift(230, 430, 200) >>,
     \* three shifts of 4 hours of driving each
     << Shift(0, 240, 240), Shift(300, 540, 240), Shift(600, 840, 240) >>,
     \* three long shifts with little driving
     << Shift(0, 400, 100), Shift(0, 400, 100), Shift(0, 400, 100) >>,
     \* four shifts, driving shorter than the shift; shift 2 can follow
     \* shift 0
     << Shift(0, 100, 40), Shift(0, 690, 240),
        Shift(102, 467, 200), Shift(500, 600, 130) >>,
     \* four shifts, the last one can follow any of the first three
     << Shift(0, 400, 240), Shift(0, 400, 240),
        Shift(100, 467, 200), Shift(480, 600, 30) >>,
     \* four shifts, the last one ends too late for the first two
     << Shift(0, 400, 240), Shift(0, 400, 240),
        Shift(100, 467, 200), Shift(600, 710, 30) >>,
     \* four shifts, the last one starts one minute after the third ends
     << Shift(0, 400, 240), Shift(0, 400, 240),
        Shift(100, 467, 200), Shift(468, 600, 30) >>,
     \* six shifts, driving the whole shift
     << Shift(0, 180, 180), Shift(0, 180, 180), Shift(0, 180, 180),
        Shift(210, 370, 160), Shift(215, 375, 160), Shift(530, 690, 160) >>,
     \* seven shifts, driving the whole shift, a pool of six drivers
     << Shift(0, 180, 180), Shift(0, 180, 180), Shift(0, 180, 180),
        Shift(210, 370, 160), Shift(215, 375, 160), Shift(210, 370, 160),
        Shift(405, 505, 100) >>,
     \* seven shifts that three or four drivers can cover, a pool of six
     << Shift(0, 100, 100), Shift(0, 240, 240), Shift(0, 400, 240),
        Shift(102, 370, 140), Shift(270, 370, 100), Shift(400, 500, 100),
        Shift(402, 690, 240) >>,
     \* eight shifts, driving the whole shift
     << Shift(0, 100, 100), Shift(0, 180, 180), Shift(0, 180, 180),
        Shift(110, 240, 130), Shift(210, 370, 160), Shift(210, 370, 160),
        Shift(270, 400, 130), Shift(400, 500, 100) >>
  >>

Catalogs == { CatalogList[i] : i \in { j \in DOMAIN CatalogList :
                                        Len(CatalogList[j]) <= MaxShifts } }

(***************************************************************************)
(* Computed data (lines 60-78).                                            *)
(***************************************************************************)
num_shifts == Len(shifts)
Shifts == 0 .. (num_shifts - 1)
shift(s) == shifts[s + 1]

RECURSIVE SumDurations(_)
SumDurations(n) == IF n = 0 THEN 0 ELSE shifts[n].duration + SumDurations(n - 1)

total_driving_time == SumDurations(num_shifts)

CeilDiv(a, b) == (a + b - 1) \div b

min_num_drivers == CeilDiv(total_driving_time, max_driving_time)

PoolSize(md, mnd) ==
  IF md THEN 2 * min_num_drivers ELSE mnd

SetMin(S) == CHOOSE x \in S : \A y \in S : x <= y
SetMax(S) == CHOOSE x \in S : \A y \in S : x >= y

min_start_time == SetMin({ shift(s).start : s \in Shifts })
max_end_time == SetMax({ shift(s).end : s \in Shifts })

Drivers == 0 .. (num_drivers - 1)

(***************************************************************************)
(* Arcs between two shifts (lines 203-208): one Boolean per ordered pair   *)
(* whose delay is at least min_delay_between_shifts.                       *)
(***************************************************************************)
Delay(s, o) == shift(o).start - shift(s).end

\* As Arcs, with the test of line 206 written "if delay < 0".
Arcs_any_nonnegative_delay ==
  { p \in Shifts \X Shifts : p[1] # p[2] /\ Delay(p[1], p[2]) >= 0 }

Arcs == { p \in Shifts \X Shifts : Delay(p[1], p[2]) >= min_delay_between_shifts }


(***************************************************************************)
(* Variables of one driver (lines 126-150, 159, 173, 208, 236).  A driver  *)
(* assignment is a record with one field per group of solver variables.   *)
(* In fixed-driver-count mode there is no working variable: the field is   *)
(* kept TRUE and no literal list contains it.                              *)
(***************************************************************************)
BlankDriver ==
  [ source_shift     |-> [s \in Shifts |-> FALSE],
    final_shift      |-> [s \in Shifts |-> FALSE],
    active           |-> [s \in Shifts |-> FALSE],
    arc              |-> [p \in Arcs |-> FALSE],
    working          |-> TRUE,
    total_driving    |-> [s \in Shifts |-> 0],
    no_break_driving |-> [s \in Shifts |-> 0],
    start_time       |-> 0,
    end_time         |-> 0,
    driving_time     |-> 0,
    working_time     |-> 0 ]

(***************************************************************************)
(* Values the enumeration draws the integer variables from: the points of  *)
(* time a shift, its setup or its cleanup begins or ends at, and the sums  *)
(* of driving minutes of sets of shifts.  Each is cut to the domain the    *)
(* code gives the variable in NewIntVar.                                   *)
(***************************************************************************)
TimeGrid ==
  UNION { { shift(s).start - setup_time, shift(s).start,
            shift(s).end, shift(s).end + cleanup_time } : s \in Shifts }

RECURSIVE SubsetSums(_)
SubsetSums(n) ==
  IF n = 0 THEN {0}
  ELSE LET prev == SubsetSums(n - 1)
       IN  prev \cup { v + shifts[n].duration : v \in prev }

StartDomain ==
  { v \in TimeGrid : min_start_time - setup_time <= v /\ v <= max_end_time }

EndDomain ==
  { v \in TimeGrid : min_start_time <= v /\ v <= max_end_time + cleanup_time }

DrivingDomain ==
  { v \in SubsetSums(num_shifts) : 0 <= v /\ v <= max_driving_time }

NoBreakDomain ==
  { v \in SubsetSums(num_shifts) : 0 <= v /\ v <= max_driving_time_without_pauses }

WorkingTimeDomain ==
  { v \in { e - b : e \in EndDomain, b \in StartDomain } \cup {0} :
      0 <= v /\ v <= max_working_time }

WorkingDomain == IF minimize_drivers THEN BOOLEAN ELSE {TRUE}

(***************************************************************************)
(* Literal lists.  A literal is <<kind, i, j, value>>; AddExactlyOne holds *)
(* when exactly one literal of the list is true.                           *)
(***************************************************************************)
AddExactlyOne(lits) == Cardinality({ l \in lits : l[4] }) = 1

outgoing_source_shift(a) ==
  { <<"source", s, s, a.source_shift[s]>> : s \in Shifts }
  \cup (IF minimize_drivers THEN { <<"idle", 0, 0, ~a.working>> } ELSE {})

incoming_sink_literals(a) ==
  { <<"final", s, s, a.final_shift[s]>> : s \in Shifts }
  \cup (IF minimize_drivers THEN { <<"idle", 0, 0, ~a.working>> } ELSE {})

outgoing_shift(a, s) ==
  { <<"final", s, s, a.final_shift[s]>>, <<"loop", s, s, ~a.active[s]>> }
  \cup { <<"arc", p[1], p[2], a.arc[p]>> : p \in { q \in Arcs : q[1] = s } }

incoming_shift(a, s) ==
  { <<"source", s, s, a.source_shift[s]>>, <<"loop", s, s, ~a.active[s]>> }
  \cup { <<"arc", p[1], p[2], a.arc[p]>> : p \in { q \in Arcs : q[2] = s } }

(***************************************************************************)
(* Constraints of one driver, one operator per model.Add.                  *)
(***************************************************************************)
\* Arc from source to shift (lines 159-168).
SourceSetsStart(a, s) ==
  a.source_shift[s] => a.start_time = shift(s).start - setup_time

SourceSetsTotalDriving(a, s) ==
  a.source_shift[s] => a.total_driving[s] = shift(s).duration

SourceSetsNoBreakDriving(a, s) ==
  a.source_shift[s] => a.no_break_driving[s] = shift(s).duration

\* Arc from shift to sink (lines 173-180).
FinalSetsEnd(a, s) ==
  a.final_shift[s] => a.end_time = shift(s).end + cleanup_time

FinalSetsDrivingTime(a, s) ==
  a.final_shift[s] => a.driving_time = a.total_driving[s]

\* Node not active (lines 185-189).
InactiveTotalDriving(a, s) ==
  ~a.active[s] => a.total_driving[s] = 0

InactiveNoBreakDriving(a, s) ==
  ~a.active[s] => a.no_break_driving[s] = 0

\* Node active (lines 198-201).
ActiveBoundsStart(a, s) ==
  a.active[s] => a.start_time <= shift(s).start - setup_time

ActiveBoundsEnd(a, s) ==
  a.active[s] => a.end_time >= shift(s).end + cleanup_time

\* Arc from shift s to shift o (lines 208-220).
ArcTotalDriving(a, s, o) ==
  a.arc[<<s, o>>] =>
    a.total_driving[o] = a.total_driving[s] + shift(o).duration

\* As ArcNoBreakDriving, with the else branch of lines 218-220 lost: every
\* arc resets the accumulator.
ArcNoBreakDriving_always_resets(a, s, o) ==
  a.arc[<<s, o>>] => a.no_break_driving[o] = shift(o).duration

ArcNoBreakDriving(a, s, o) ==
  a.arc[<<s, o>>] =>
    IF Delay(s, o) >= min_pause_after_4h
    THEN a.no_break_driving[o] = shift(o).duration
    ELSE a.no_break_driving[o] = a.no_break_driving[s] + shift(o).duration

\* Line 232.
WorkingTimeDef(a) == a.working_time = a.end_time - a.start_time

\* Driver is not working (lines 237-241).
NotWorkingStart(a) ==
  minimize_drivers => (~a.working => a.start_time = min_start_time)

NotWorkingEnd(a) ==
  minimize_drivers => (~a.working => a.end_time = min_start_time)

NotWorkingDriving(a) ==
  minimize_drivers => (~a.working => a.driving_time = 0)

\* As MinWorkingTime, with lines 247-248 lost: a working driver of the
\* first pass has no minimum working time.
MinWorkingTime_not_for_working(a) ==
  IF minimize_drivers
  THEN ~a.working => a.working_time = 0
  ELSE a.working_time >= min_working_time

\* Working time constraints (lines 246-252).
MinWorkingTime(a) ==
  IF minimize_drivers
  THEN /\ a.working => a.working_time >= min_working_time
       /\ ~a.working => a.working_time = 0
  ELSE a.working_time >= min_working_time

\* Circuit constraint (lines 254-259).
CircuitSource(a) == AddExactlyOne(outgoing_source_shift(a))

CircuitOutgoing(a, s) == AddExactlyOne(outgoing_shift(a, s))

CircuitIncoming(a, s) == AddExactlyOne(incoming_shift(a, s))

CircuitSink(a) == AddExactlyOne(incoming_sink_literals(a))

\* Everything the loop body of lines 126-259 adds for one driver.
DriverConstraints(a) ==
  /\ \A s \in Shifts :
       /\ SourceSetsStart(a, s)
       /\ SourceSetsTotalDriving(a, s)
       /\ SourceSetsNoBreakDriving(a, s)
       /\ FinalSetsEnd(a, s)
       /\ FinalSetsDrivingTime(a, s)
       /\ InactiveTotalDriving(a, s)
       /\ InactiveNoBreakDriving(a, s)
       /\ ActiveBoundsStart(a, s)
       /\ ActiveBoundsEnd(a, s)
       /\ CircuitOutgoing(a, s)
       /\ CircuitIncoming(a, s)
  /\ \A p \in Arcs : ArcTotalDriving(a, p[1], p[2]) /\ ArcNoBreakDriving(a, p[1], p[2])
  /\ WorkingTimeDef(a)
  /\ NotWorkingStart(a)
  /\ NotWorkingEnd(a)
  /\ NotWorkingDriving(a)
  /\ MinWorkingTime(a)
  /\ CircuitSource(a)
  /\ CircuitSink(a)

(***************************************************************************)
(* Constraints across drivers.  An assignment A maps each driver slot to   *)
(* its driver assignment.                                                  *)
(***************************************************************************)
shared_incoming_shift(A, s) ==
  UNION { { <<"source", d, s, A[d].source_shift[s]>> }
          \cup { <<"arc", d, p[1], A[d].arc[p]>> : p \in { q \in Arcs : q[2] = s } }
          : d \in Drivers }

shared_outgoing_literals(A, s) ==
  UNION { { <<"final", d, s, A[d].final_shift[s]>> }
          \cup { <<"arc", d, p[2], A[d].arc[p]>> : p \in { q \in Arcs : q[1] = s } }
          : d \in Drivers }

\* As CoveredShifts, with line 262 written "for s in range(num_drivers)".
CoveredShifts_range_num_drivers == Shifts \cap Drivers

\* The range of the loop of line 262.
CoveredShifts == Shifts

\* Each shift is covered (line 263).
ShiftCovered(A, s) ==
  AddExactlyOne({ <<"active", d, s, A[d].active[s]>> : d \in Drivers })

\* Globally, each node has one incoming and one outgoing literal (265-266).
SharedIncoming(A, s) == AddExactlyOne(shared_incoming_shift(A, s))

SharedOutgoing(A, s) == AddExactlyOne(shared_outgoing_literals(A, s))

\* Symmetry breaking (lines 272-274): starting_shifts[k, k] == 1, k = 0, 1, 2.
SymmetrySlots == 0 .. 2

SymmetryBreaking(A, k) == A[k].source_shift[k]

\* The keys of starting_shifts (line 168): every (d, s) the loops visit.
starting_shifts_keys == Drivers \X Shifts

\* Lines 272-274 read starting_shifts[k, k]: a missing key raises KeyError.
BuildRaisesKeyError == \E k \in SymmetrySlots : <<k, k>> \notin starting_shifts_keys

\* Push non working drivers to the end (lines 276-280).
NonWorkingSuffix(A, d) ==
  minimize_drivers => (~A[d].working => ~A[d + 1].working)

RECURSIVE SumOver(_, _)
SumOver(f, S) ==
  IF S = {} THEN 0
  ELSE LET x == CHOOSE y \in S : TRUE IN f[x] + SumOver(f, S \ {x})

\* delay_literals, delay_weights (lines 229-230): the weighted sum's value.
DelaySum(A) ==
  SumOver([d \in Drivers |->
             SumOver([p \in Arcs |-> IF A[d].arc[p] THEN Delay(p[1], p[2]) ELSE 0],
                     Arcs)],
          Drivers)

\* Redundant constraints (lines 282-288).
RedundantDriving(A) ==
  SumOver([d \in Drivers |-> A[d].driving_time], Drivers) = total_driving_time

RedundantWorking(A) ==
  ~minimize_drivers =>
    SumOver([d \in Drivers |-> A[d].working_time], Drivers)
      = total_driving_time + num_drivers * (setup_time + cleanup_time) + DelaySum(A)

\* The model without the two redundant equalities.
CoreConstraints(A) ==
  /\ \A d \in Drivers : DriverConstraints(A[d])
  /\ \A s \in CoveredShifts :
       ShiftCovered(A, s) /\ SharedIncoming(A, s) /\ SharedOutgoing(A, s)
  /\ \A k \in SymmetrySlots : SymmetryBreaking(A, k)
  /\ \A d \in 0 .. (num_drivers - 2) : NonWorkingSuffix(A, d)

RedundantConstraints(A) == RedundantDriving(A) /\ RedundantWorking(A)

ModelConstraints(A) == CoreConstraints(A) /\ RedundantConstraints(A)

\* The objective (lines 290-297).
Objective(A) ==
  IF minimize_drivers
  THEN Cardinality({ d \in Drivers : A[d].working })
  ELSE DelaySum(A)

(***************************************************************************)
(* The solver's search space, enumerated variable group by variable group; *)
(* a constraint prunes as soon as every variable it reads is assigned.     *)
(***************************************************************************)
SourceStage ==
  { a \in { [BlankDriver EXCEPT !.source_shift = src, !.working = w] :
              src \in [Shifts -> BOOLEAN], w \in WorkingDomain } :
      CircuitSource(a) }

SinkStage ==
  { a \in { [b EXCEPT !.final_shift = f] :
              b \in SourceStage, f \in [Shifts -> BOOLEAN] } :
      CircuitSink(a) }

\* The shifts whose incoming literals are all assigned once node k is.
ReadyIncoming(k) ==
  { o \in Shifts : SetMax({o} \cup { p[1] : p \in { q \in Arcs : q[2] = o } }) = k }

RECURSIVE NodeStage(_)
NodeStage(k) ==
  IF k = 0 THEN SinkStage
  ELSE LET n == k - 1
           out == { q \in Arcs : q[1] = n }
           ready == ReadyIncoming(n)
       IN  { a \in { [b EXCEPT !.active[n] = act,
                               !.arc = [p \in Arcs |-> IF p[1] = n THEN p \in X
                                                       ELSE b.arc[p]]] :
                       b \in NodeStage(n), act \in BOOLEAN, X \in SUBSET out } :
               /\ CircuitOutgoing(a, n)
               /\ \A o \in ready : CircuitIncoming(a, o) }

TimeStage ==
  { a \in { [b EXCEPT !.start_time = st, !.end_time = en] :
              b \in NodeStage(num_shifts), st \in StartDomain, en \in EndDomain } :
      /\ \A s \in Shifts : /\ SourceSetsStart(a, s)
                           /\ FinalSetsEnd(a, s)
                           /\ ActiveBoundsStart(a, s)
                           /\ ActiveBoundsEnd(a, s)
      /\ NotWorkingStart(a)
      /\ NotWorkingEnd(a) }

WorkingStage ==
  { a \in { [b EXCEPT !.working_time = wt] :
              b \in TimeStage, wt \in WorkingTimeDomain } :
      WorkingTimeDef(a) /\ MinWorkingTime(a) }

\* The arcs between node k and the nodes before it.
ArcsUpTo(k) ==
  { p \in Arcs : (p[1] = k /\ p[2] <= k) \/ (p[2] = k /\ p[1] <= k) }

RECURSIVE AccumulatorStage(_)
AccumulatorStage(k) ==
  IF k = 0 THEN WorkingStage
  ELSE LET n == k - 1
           arcs == ArcsUpTo(n)
           td == { a \in { [b EXCEPT !.total_driving[n] = v] :
                             b \in AccumulatorStage(n), v \in DrivingDomain } :
                     /\ SourceSetsTotalDriving(a, n)
                     /\ InactiveTotalDriving(a, n)
                     /\ \A p \in arcs : ArcTotalDriving(a, p[1], p[2]) }
       IN  { a \in { [b EXCEPT !.no_break_driving[n] = v] :
                       b \in td, v \in NoBreakDomain } :
               /\ SourceSetsNoBreakDriving(a, n)
               /\ InactiveNoBreakDriving(a, n)
               /\ \A p \in arcs : ArcNoBreakDriving(a, p[1], p[2]) }

DrivingStage ==
  { a \in { [b EXCEPT !.driving_time = v] :
              b \in AccumulatorStage(num_shifts), v \in DrivingDomain } :
      /\ \A s \in Shifts : FinalSetsDrivingTime(a, s)
      /\ NotWorkingDriving(a) }

\* Every assignment of one driver's variables that satisfies its constraints.
DriverSolutions == { a \in DrivingStage : DriverConstraints(a) }

\* AddExactlyOne over all slots (line 263) cannot hold once two of the
\* literals assigned so far are true.
ShiftCoveredSoFar(A, s, d) ==
  Cardinality({ i \in 0 .. d : A[i].active[s] }) <= 1

\* Slot by slot; the constraints over slots 0..d prune at slot d.
RECURSIVE SlotStage(_, _)
SlotStage(k, sols) ==
  IF k = 0 THEN { << >> }
  ELSE LET d == k - 1
       IN  { A \in { [i \in 0 .. d |-> IF i = d THEN a ELSE B[i]] :
                       B \in SlotStage(d, sols), a \in sols } :
               /\ d \in SymmetrySlots => SymmetryBreaking(A, d)
               /\ d > 0 => NonWorkingSuffix(A, d - 1)
               /\ \A s \in CoveredShifts : ShiftCoveredSoFar(A, s, d) }

\* The satisfying assignments of the model without the redundant equalities.
CoreSolutions ==
  { A \in SlotStage(num_drivers, DriverSolutions) : CoreConstraints(A) }

\* The satisfying assignments of the model as built.
Solutions == { A \in CoreSolutions : ModelConstraints(A) }

\* The assignments of least objective among sols.
Optimal(sols) ==
  { A \in sols : \A B \in sols : Objective(A) <= Objective(B) }

(***************************************************************************)
(* The solver's answer (line 309).  INFEASIBLE only when no assignment     *)
(* satisfies the model, OPTIMAL with an assignment of least objective,     *)
(* FEASIBLE with any satisfying assignment (the search was cut short),     *)
(* UNKNOWN when the search was cut short before any was found.             *)
(***************************************************************************)
NoSolution == << >>

Solved == status \in {"OPTIMAL", "FEASIBLE"}

\* The lines printed for driver d (lines 321-338).
RECURSIVE ShiftLines(_, _, _)
ShiftLines(A, d, k) ==
  IF k = 0 THEN << >>
  ELSE LET s == k - 1
           before == ShiftLines(A, d, s)
           first == before = << >>
       IN  IF ~A[d].active[s] THEN before
           ELSE Append(before,
                       [ shift |-> s,
                         break |-> A[d].no_break_driving[s] = shift(s).duration
                                   /\ ~first ])

DriverReport(A, d) ==
  [ total_driving_time |-> A[d].driving_time,
    working_time       |-> A[d].working_time + setup_time + cleanup_time,
    lines              |-> ShiftLines(A, d, num_shifts) ]

Init ==
  /\ shifts \in Catalogs
  /\ pc = "main"
  /\ minimize_drivers = TRUE
  /\ max_num_drivers = -1
  /\ num_drivers = 0
  /\ status = "NONE"
  /\ solution = NoSolution
  /\ result = 0
  /\ main_num_drivers = 0
  /\ calls = << >>
  /\ report = << >>

\* bus_driver_scheduling is entered: its arguments and computed data
\* (lines 52-86).
Enter(md, mnd) ==
  /\ pc' = "build"
  /\ minimize_drivers' = md
  /\ max_num_drivers' = mnd
  /\ num_drivers' = PoolSize(md, mnd)
  /\ status' = "NONE"
  /\ solution' = NoSolution
  /\ report' = << >>
  /\ calls' = Append(calls, [minimize_drivers |-> md, max_num_drivers |-> mnd])

\* main, line 347: the first pass.
CallPhase1 ==
  /\ pc = "main"
  /\ Enter(TRUE, -1)
  /\ UNCHANGED <<shifts, result, main_num_drivers>>

\* Lines 88-303: the model is built; line 272-274 may raise KeyError.
Build ==
  /\ pc = "build"
  /\ pc' = IF BuildRaisesKeyError THEN "raised" ELSE "solve"
  /\ UNCHANGED <<shifts, minimize_drivers, max_num_drivers, num_drivers, status,
                 solution, result, main_num_drivers, calls, report>>

\* Line 309.
Solve ==
  /\ pc = "solve"
  /\ pc' = "check"
  /\ \E sols \in {Solutions} :
       \/ sols = {} /\ status' = "INFEASIBLE" /\ solution' = NoSolution
       \/ status' = "UNKNOWN" /\ solution' = NoSolution
       \/ \E A \in Optimal(sols) : status' = "OPTIMAL" /\ solution' = A
       \/ \E A \in sols : status' = "FEASIBLE" /\ solution' = A
  /\ UNCHANGED <<shifts, minimize_drivers, max_num_drivers, num_drivers,
                 result, main_num_drivers, calls, report>>

\* The call returns v to main: line 347-348 after the first pass, line 352
\* after the second.
ReturnToMain(v) ==
  /\ result' = v
  /\ solution' = NoSolution
  /\ IF minimize_drivers
     THEN pc' = "phase1_returned" /\ main_num_drivers' = v
     ELSE pc' = "done" /\ UNCHANGED main_num_drivers

\* Lines 311-318.
CheckStatus ==
  /\ pc = "check"
  /\ IF ~Solved THEN ReturnToMain(-1) /\ UNCHANGED max_num_drivers
     ELSE IF minimize_drivers
          THEN /\ max_num_drivers' = Objective(solution)
               /\ ReturnToMain(Objective(solution))
          ELSE /\ pc' = "report"
               /\ UNCHANGED <<max_num_drivers, result, solution, main_num_drivers>>
  /\ UNCHANGED <<shifts, minimize_drivers, num_drivers, status, calls, report>>

\* One turn of the loop of lines 320-338.
ReportDriver ==
  /\ pc = "report"
  /\ Len(report) < num_drivers
  /\ report' = Append(report, DriverReport(solution, Len(report)))
  /\ UNCHANGED <<shifts, pc, minimize_drivers, max_num_drivers, num_drivers,
                 status, solution, result, main_num_drivers, calls>>

\* Line 340.
ReturnObjective ==
  /\ pc = "report"
  /\ Len(report) = num_drivers
  /\ ReturnToMain(Objective(solution))
  /\ UNCHANGED <<shifts, minimize_drivers, max_num_drivers, num_drivers, status,
                 calls, report>>

\* main, lines 348-349.
SkipPhase2 ==
  /\ pc = "phase1_returned"
  /\ main_num_drivers = -1
  /\ pc' = "done"
  /\ UNCHANGED <<shifts, minimize_drivers, max_num_drivers, num_drivers, status,
                 solution, result, main_num_drivers, calls, report>>

\* As CallPhase2, with the test of line 348 lost.
CallPhase2_unchecked ==
  /\ pc = "phase1_returned"
  /\ Enter(FALSE, main_num_drivers)
  /\ UNCHANGED <<shifts, result, main_num_drivers>>

\* main, lines 350-352.
CallPhase2 ==
  /\ pc = "phase1_returned"
  /\ main_num_drivers # -1
  /\ Enter(FALSE, main_num_drivers)
  /\ UNCHANGED <<shifts, result, main_num_drivers>>

Next ==
  \/ CallPhase1
  \/ Build
  \/ Solve
  \/ CheckStatus
  \/ ReportDriver
  \/ ReturnObjective
  \/ SkipPhase2
  \/ CallPhase2

Spec == Init /\ [][Next]_vars

(***************************************************************************)
(* Reading an assignment: the path of a driver.                            *)
(***************************************************************************)
ActiveShifts(a) == { s \in Shifts : a.active[s] }

OpeningShifts(a) == { s \in Shifts : a.source_shift[s] }

ClosingShifts(a) == { s \in Shifts : a.final_shift[s] }

ChosenArcs(a) == { p \in Arcs : a.arc[p] }

Successors(a, s) == { o \in Shifts : <<s, o>> \in ChosenArcs(a) }

\* The shifts reached from s along chosen arcs, s first.
RECURSIVE PathFrom(_, _, _)
PathFrom(a, s, fuel) ==
  IF fuel = 0 \/ Successors(a, s) = {} THEN << s >>
  ELSE << s >> \o PathFrom(a, CHOOSE o \in Successors(a, s) : TRUE, fuel - 1)

\* The path of a driver: from its opening shift along chosen arcs.
DriverPath(a) ==
  IF OpeningShifts(a) = {} THEN << >>
  ELSE PathFrom(a, CHOOSE s \in OpeningShifts(a) : TRUE, num_shifts)

RECURSIVE PathDriving(_, _)
PathDriving(p, i) ==
  IF i = 0 THEN 0 ELSE shift(p[i]).duration + PathDriving(p, i - 1)

HasSolution == solution # NoSolution

(***************************************************************************)
(* C1: in every satisfying assignment, of either mode, every shift of the  *)
(* catalog is active for exactly one driver.                               *)
(***************************************************************************)
C1_EveryShiftHasExactlyOneDriver ==
  HasSolution =>
    \A s \in Shifts :
      Cardinality({ d \in Drivers : solution[d].active[s] }) = 1

\* A second-pass assignment in which some driver serves two shifts.
C1_Witness ==
  /\ HasSolution
  /\ ~minimize_drivers
  /\ \E d \in Drivers : Cardinality(ActiveShifts(solution[d])) >= 2

(***************************************************************************)
(* C2: main calls the first pass first and once, in minimize-driver-count  *)
(* mode; a first pass whose status is neither OPTIMAL nor FEASIBLE returns *)
(* -1 and no second call is made; otherwise the second call is made once,  *)
(* after the first has returned, in fixed-driver-count mode with as many   *)
(* drivers as the first pass returned.                                     *)
(***************************************************************************)
FirstCall == [minimize_drivers |-> TRUE, max_num_drivers |-> -1]

SecondCall(m) == [minimize_drivers |-> FALSE, max_num_drivers |-> m]

C2_State ==
  /\ (pc = "main") <=> (calls = << >>)
  /\ Len(calls) <= 2
  /\ Len(calls) >= 1 => calls[1] = FirstCall
  /\ Len(calls) = 1 => minimize_drivers
  /\ Len(calls) = 2 =>
       /\ main_num_drivers # -1
       /\ calls[2] = SecondCall(main_num_drivers)
       /\ ~minimize_drivers
       /\ num_drivers = main_num_drivers
  /\ (pc = "phase1_returned" /\ ~Solved) => main_num_drivers = -1
  /\ (pc = "phase1_returned" /\ Solved) => main_num_drivers # -1
  /\ (pc = "done" /\ Len(calls) = 1) => (~Solved /\ main_num_drivers = -1)

C2_Step ==
  /\ (pc = "check" /\ minimize_drivers /\ ~Solved) =>
       (pc' = "phase1_returned" /\ result' = -1 /\ main_num_drivers' = -1)
  /\ (pc = "check" /\ minimize_drivers /\ Solved) =>
       (pc' = "phase1_returned" /\ result' = Objective(solution)
        /\ main_num_drivers' = result')
  /\ (pc = "phase1_returned" /\ main_num_drivers = -1) =>
       (pc' = "done" /\ calls' = calls)
  /\ (pc = "phase1_returned" /\ main_num_drivers # -1) =>
       (pc' = "build" /\ calls' = Append(calls, SecondCall(result))
        /\ ~minimize_drivers' /\ num_drivers' = result)
  /\ calls' # calls => pc \in {"main", "phase1_returned"}

C2_TwoPhaseOrder == [] C2_State /\ [][C2_Step]_vars

\* The second pass has run to its end with the count of the first.
C2_Witness ==
  /\ pc = "done"
  /\ calls = << FirstCall, SecondCall(3) >>
  /\ result # -1

(***************************************************************************)
(* C3: in every satisfying assignment no_break_driving of an active node   *)
(* is at most 240; along a chosen arc s -> o it is carried forward         *)
(* (no_break_driving[o] = no_break_driving[s] + o's driving minutes) when  *)
(* the gap is below 30 minutes and reset to o's driving minutes otherwise; *)
(* so no run of shifts of a driver's path separated only by gaps below 30  *)
(* minutes drives more than 240 minutes.                                   *)
(***************************************************************************)
RunDriving(p, i, j) == PathDriving(p, j) - PathDriving(p, i - 1)

ShortGapsOnly(p, i, j) ==
  \A k \in i .. (j - 1) : Delay(p[k], p[k + 1]) < 30

C4_DrivingAndReportedWorkingTime ==
  /\ HasSolution =>
       \A d \in Drivers :
         /\ solution[d].driving_time <= 540
         /\ solution[d].working_time + setup_time + cleanup_time <= 720
  /\ \A i \in 1 .. Len(report) :
       report[i].total_driving_time <= 540 /\ report[i].working_time <= 720

(***************************************************************************)
(* C5: a first pass that does not return -1 returns the least number of    *)
(* drivers that can cover every shift exactly once within the regulations  *)
(* (driving <= 540, driving since the last break <= 240, at least 2        *)
(* minutes between consecutive shifts, working time from 390 to 720).      *)
(***************************************************************************)
\* The shifts of B in the order of their starts.
RECURSIVE ByStart(_)
ByStart(B) ==
  IF B = {} THEN << >>
  ELSE LET x == CHOOSE y \in B : \A z \in B : shift(y).start <= shift(z).start
       IN  << x >> \o ByStart(B \ {x})

\* Driving since the last break at the i-th shift of p.
RECURSIVE SinceBreak(_, _)
SinceBreak(p, i) ==
  IF i = 1 THEN shift(p[1]).duration
  ELSE IF Delay(p[i - 1], p[i]) >= min_pause_after_4h
       THEN shift(p[i]).duration
       ELSE SinceBreak(p, i - 1) + shift(p[i]).duration

\* One driver can serve exactly the shifts of B.
LegalDay(B) ==
  LET p == ByStart(B)
      n == Len(p)
      worked == (shift(p[n]).end + cleanup_time) - (shift(p[1]).start - setup_time)
  IN  /\ \A i \in 1 .. (n - 1) : Delay(p[i], p[i + 1]) >= min_delay_between_shifts
      /\ PathDriving(p, n) <= max_driving_time
      /\ \A i \in 1 .. n : SinceBreak(p, i) <= max_driving_time_without_pauses
      /\ min_working_time <= worked /\ worked <= max_working_time

NoCover == num_shifts + 1

\* The least number of legal days the shifts of U split into.
RECURSIVE MinCover(_)
MinCover(U) ==
  IF U = {} THEN 0
  ELSE LET x == CHOOSE y \in U : \A z \in U : y <= z
           days == { B \in SUBSET U : x \in B /\ LegalDay(B) }
           counts == { 1 + MinCover(U \ B) : B \in days }
       IN  IF counts = {} THEN NoCover ELSE SetMin(counts)

C6_SecondPassIsSatisfiable ==
  /\ pc = "raised" => minimize_drivers
  /\ (pc = "solve" /\ ~minimize_drivers) => Solutions # {}

C8_BuildNeverRaises == pc # "raised"

(***************************************************************************)
(* C9: in every satisfying assignment the active shifts of a driver are    *)
(* the nodes of one path source -> s1 -> ... -> sk -> sink of chosen arcs, *)
(* in chronological order with at least 2 minutes between consecutive      *)
(* shifts; total_driving at the i-th node is the driving of s1..si, the    *)
(* driver's driving time that of the whole path, start_time is s1's start  *)
(* less setup, end_time sk's end plus cleanup; an inactive node has both   *)
(* accumulators 0.                                                         *)
(***************************************************************************)
PathNodes(p) == { p[i] : i \in 1 .. Len(p) }

PathArcs(p) == { <<p[i], p[i + 1]>> : i \in 1 .. (Len(p) - 1) }

OnePath(a) ==
  LET p == DriverPath(a)
      n == Len(p)
  IN  /\ PathNodes(p) = ActiveShifts(a)
      /\ Cardinality(PathNodes(p)) = n
      /\ OpeningShifts(a) = (IF n = 0 THEN {} ELSE { p[1] })
      /\ ChosenArcs(a) = PathArcs(p)
      /\ ClosingShifts(a) = (IF n = 0 THEN {} ELSE { p[n] })
      /\ \A i \in 1 .. (n - 1) :
           shift(p[i + 1]).start - shift(p[i]).end >= 2
      /\ \A i \in 1 .. n : a.total_driving[p[i]] = PathDriving(p, i)
      /\ n > 0 => /\ a.driving_time = PathDriving(p, n)
                  /\ a.start_time = shift(p[1]).start - setup_time
                  /\ a.end_time = shift(p[n]).end + cleanup_time
      /\ \A s \in Shifts \ ActiveShifts(a) :
           a.total_driving[s] = 0 /\ a.no_break_driving[s] = 0

C9_ActiveShiftsFormOnePath ==
  HasSolution => \A d \in Drivers : OnePath(solution[d])

\* Some driver's path has three shifts.
C9_Witness ==
  /\ HasSolution
  /\ \E d \in Drivers : Len(DriverPath(solution[d])) >= 3

====
